---- MODULE Spec2Model ----
(***************************************************************************)
(* Model of api/python/common/util.py: background_thread_loop (an asyncio  *)
(* event loop run forever on a daemon thread) and run_async (submit a      *)
(* coroutine with run_coroutine_threadsafe, then block on the returned     *)
(* concurrent.futures.Future with an optional timeout).                    *)
(*                                                                         *)
(* WorkItems are numbered in submission order.  For a WorkItem w:          *)
(*   target[w]  the loop (handle) it was submitted to                      *)
(*   caller[w]  the thread that called run_async: <<"ext", t>> or, for a   *)
(*              call made by a coroutine running on loop h, <<"loop", h>>  *)
(*   timeout[w] the timeout argument of the call                           *)
(*   pc[w]      where the run_async call is                                *)
(*   ret[w]     what the run_async call returned or raised                 *)
(*   tstate/tres  the asyncio Task wrapping the coroutine                  *)
(*   fstate/fres  the concurrent.futures.Future (the PendingResult)        *)
(*   subscope[w]  whether the with-block of the loop was open or closed    *)
(*              when run_async was called                                  *)
(* For a loop h, nthreads[h] counts the threads started for it.            *)
(***************************************************************************)
EXTENDS Naturals, Sequences, FiniteSets, TLC

VARIABLES hstate, scope, ready, curr, nitems,
          target, caller, timeout, pc, ret,
          tstate, tres, fstate, fres, yields, enq, starts,
          nthreads, subscope

vars == <<hstate, scope, ready, curr, nitems,
          target, caller, timeout, pc, ret,
          tstate, tres, fstate, fres, yields, enq, starts,
          nthreads, subscope>>

\* ---- bounds ----
MaxItems == 2
NumThreads == 2
NumHandles == 2
MaxYields == 1

Items == 1..MaxItems
ExtThreads == 1..NumThreads
Handles == 1..NumHandles

\* ---- inputs ----
NoTimeout == "None"
Timeouts == {"None", "zero", "finite"}
Values == {"None", "42"}
Excs == {"TimeoutError", "ValueError"}

NoRet == [kind |-> "none", val |-> "", flag |-> FALSE]
NoThread == <<"none", 0>>
ExtThread(t) == <<"ext", t>>
LoopThread(h) == <<"loop", h>>

\* ---- state after import: nothing acquired, nothing submitted ----
Init ==
    /\ hstate = [h \in Handles |-> "none"]
    /\ scope = [h \in Handles |-> "none"]
    /\ ready = [h \in Handles |-> <<>>]
    /\ curr = [h \in Handles |-> 0]
    /\ nitems = 0
    /\ target = [w \in Items |-> 0]
    /\ caller = [w \in Items |-> NoThread]
    /\ timeout = [w \in Items |-> NoTimeout]
    /\ pc = [w \in Items |-> "idle"]
    /\ ret = [w \in Items |-> NoRet]
    /\ tstate = [w \in Items |-> "new"]
    /\ tres = [w \in Items |-> ""]
    /\ fstate = [w \in Items |-> "none"]
    /\ fres = [w \in Items |-> ""]
    /\ yields = [w \in Items |-> 0]
    /\ enq = [w \in Items |-> 0]
    /\ starts = [w \in Items |-> 0]
    /\ nthreads = [h \in Handles |-> 0]
    /\ subscope = [w \in Items |-> "none"]

\* A thread is inside run_async (between line 21 and the return of line 23/25).
InCall(w) == pc[w] \in {"submitted", "waiting"}
ThreadBusy(t) == \E w \in Items : caller[w] = t /\ InCall(w)

\* The loop thread can pick the next handle of its ready queue.
LoopIdle(h) == hstate[h] = "running" /\ curr[h] = 0

\* ---- background_thread_loop ----

\* Lines 13-17: new_event_loop, Thread(...).start(), yield _loop.
Acquire(h) ==
    /\ hstate[h] = "none"
    /\ \A g \in Handles : g < h => hstate[g] # "none"
    /\ hstate' = [hstate EXCEPT ![h] = "started"]
    /\ scope' = [scope EXCEPT ![h] = "open"]
    /\ nthreads' = [nthreads EXCEPT ![h] = @ + 1]
    /\ UNCHANGED <<ready, curr, nitems, target, caller, timeout, pc, ret,
                   tstate, tres, fstate, fres, yields, enq, starts,
                   subscope>>

\* Mutant of RunForever: the thread runs a loop of its own making, so what was
\* queued on the yielded loop before is never run.
RunForeverFresh(h) ==
    /\ hstate[h] = "started"
    /\ hstate' = [hstate EXCEPT ![h] = "running"]
    /\ ready' = [ready EXCEPT ![h] = <<>>]
    /\ UNCHANGED <<scope, curr, nitems, target, caller, timeout, pc,
                   ret, tstate, tres, fstate, fres, yields, enq, starts,
                   nthreads, subscope>>

\* Lines 9-11: the daemon thread enters loop.run_forever().
RunForever(h) ==
    /\ hstate[h] = "started"
    /\ hstate' = [hstate EXCEPT ![h] = "running"]
    /\ UNCHANGED <<scope, ready, curr, nitems, target, caller, timeout, pc,
                   ret, tstate, tres, fstate, fres, yields, enq, starts,
                   nthreads, subscope>>

\* Mutant of ExitScope: leaving the with-block stops the loop, as a generator
\* with a finally clause after the yield would.
ExitScopeStops(h) ==
    /\ scope[h] = "open"
    /\ scope' = [scope EXCEPT ![h] = "closed"]
    /\ hstate' = [hstate EXCEPT ![h] = "stopped"]
    /\ UNCHANGED <<ready, curr, nitems, target, caller, timeout, pc,
                   ret, tstate, tres, fstate, fres, yields, enq, starts,
                   nthreads, subscope>>

\* Line 17, after the yield: the with-block ends; the generator has no code
\* after the yield, so nothing is torn down.
ExitScope(h) ==
    /\ scope[h] = "open"
    /\ scope' = [scope EXCEPT ![h] = "closed"]
    /\ UNCHANGED <<hstate, ready, curr, nitems, target, caller, timeout, pc,
                   ret, tstate, tres, fstate, fres, yields, enq, starts,
                   nthreads, subscope>>

\* ---- run_async ----

Returned(v, b) == [kind |-> "return", val |-> v, flag |-> b]
Raised(e) == [kind |-> "raise", val |-> e, flag |-> FALSE]

\* Line 24: the except clause names concurrent.futures.TimeoutError, which is
\* the builtin TimeoutError (and asyncio.TimeoutError) on Python 3.11.
Catches(e) == e = "TimeoutError"

\* Mutant of Outcome: the flag is taken from the value (a result of None
\* reads as no result).
OutcomeTruthy(w) ==
    IF fstate[w] = "completed" THEN Returned(fres[w], fres[w] # "None")
    ELSE IF Catches(fres[w]) THEN Returned("None", FALSE)
    ELSE Raised(fres[w])

\* Lines 23-25 once the future is done: fut.result() returns the stored value
\* or re-raises the stored exception, and the except clause filters it.
Outcome(w) ==
    IF fstate[w] = "completed" THEN Returned(fres[w], TRUE)
    ELSE IF Catches(fres[w]) THEN Returned("None", FALSE)
    ELSE Raised(fres[w])

\* Mutant of Submit: a hand-off that is not thread-safe, the callback replaces
\* what other threads had queued.
SubmitOverwrite(w, thr, h, tmo) ==
    /\ target' = [target EXCEPT ![w] = h]
    /\ caller' = [caller EXCEPT ![w] = thr]
    /\ timeout' = [timeout EXCEPT ![w] = tmo]
    /\ pc' = [pc EXCEPT ![w] = "submitted"]
    /\ fstate' = [fstate EXCEPT ![w] = "pending"]
    /\ tstate' = [tstate EXCEPT ![w] = "queued"]
    /\ ready' = [ready EXCEPT ![h] = <<<<"submit", w>>>>]
    /\ enq' = [enq EXCEPT ![w] = @ + 1]
    /\ nitems' = w
    /\ subscope' = [subscope EXCEPT ![w] = scope[h]]

\* Mutant of Submit: every submission goes to one process-wide loop.
SubmitShared(w, thr, h, tmo) ==
    /\ target' = [target EXCEPT ![w] = h]
    /\ caller' = [caller EXCEPT ![w] = thr]
    /\ timeout' = [timeout EXCEPT ![w] = tmo]
    /\ pc' = [pc EXCEPT ![w] = "submitted"]
    /\ fstate' = [fstate EXCEPT ![w] = "pending"]
    /\ tstate' = [tstate EXCEPT ![w] = "queued"]
    /\ ready' = [ready EXCEPT ![1] = Append(@, <<"submit", w>>)]
    /\ enq' = [enq EXCEPT ![w] = @ + 1]
    /\ nitems' = w
    /\ subscope' = [subscope EXCEPT ![w] = scope[h]]

\* Mutant of Submit: the callback is put at the front of the loop's queue.
SubmitFirst(w, thr, h, tmo) ==
    /\ target' = [target EXCEPT ![w] = h]
    /\ caller' = [caller EXCEPT ![w] = thr]
    /\ timeout' = [timeout EXCEPT ![w] = tmo]
    /\ pc' = [pc EXCEPT ![w] = "submitted"]
    /\ fstate' = [fstate EXCEPT ![w] = "pending"]
    /\ tstate' = [tstate EXCEPT ![w] = "queued"]
    /\ ready' = [ready EXCEPT ![h] = <<<<"submit", w>>>> \o @]
    /\ enq' = [enq EXCEPT ![w] = @ + 1]
    /\ nitems' = w
    /\ subscope' = [subscope EXCEPT ![w] = scope[h]]

\* Line 21: run_coroutine_threadsafe(coro, loop) creates the future and hands
\* one callback to the loop with call_soon_threadsafe; it does not block.
Submit(w, thr, h, tmo) ==
    /\ target' = [target EXCEPT ![w] = h]
    /\ caller' = [caller EXCEPT ![w] = thr]
    /\ timeout' = [timeout EXCEPT ![w] = tmo]
    /\ pc' = [pc EXCEPT ![w] = "submitted"]
    /\ fstate' = [fstate EXCEPT ![w] = "pending"]
    /\ tstate' = [tstate EXCEPT ![w] = "queued"]
    /\ ready' = [ready EXCEPT ![h] = Append(@, <<"submit", w>>)]
    /\ enq' = [enq EXCEPT ![w] = @ + 1]
    /\ nitems' = w
    /\ subscope' = [subscope EXCEPT ![w] = scope[h]]

\* Mutant of RunAsync: run_async starts a thread for the loop when it finds
\* that the loop is not running yet.
RunAsyncSpawns(t, h, tmo) ==
    /\ nitems < MaxItems
    /\ hstate[h] # "none"
    /\ ~ThreadBusy(ExtThread(t))
    /\ \A u \in ExtThreads : u < t => \E x \in Items : caller[x] = ExtThread(u)
    /\ Submit(nitems + 1, ExtThread(t), h, tmo)
    /\ nthreads' = [nthreads EXCEPT ![h] = IF hstate[h] = "started" THEN @ + 1 ELSE @]
    /\ UNCHANGED <<hstate, scope, curr, ret, tres, fres, yields, starts>>

\* run_async called by an external thread t on an acquired handle h (threads
\* are numbered in the order of their first call).
RunAsync(t, h, tmo) ==
    /\ nitems < MaxItems
    /\ hstate[h] # "none"
    /\ ~ThreadBusy(ExtThread(t))
    /\ \A u \in ExtThreads : u < t => \E x \in Items : caller[x] = ExtThread(u)
    /\ Submit(nitems + 1, ExtThread(t), h, tmo)
    /\ UNCHANGED <<hstate, scope, curr, ret, tres, fres, yields, starts,
                   nthreads>>

\* run_async called by the coroutine that is running a step on loop h, for
\* that same loop: the caller is the loop's own thread.
RunAsyncNested(h, tmo) ==
    /\ nitems < MaxItems
    /\ curr[h] # 0
    /\ ~ThreadBusy(LoopThread(h))
    /\ Submit(nitems + 1, LoopThread(h), h, tmo)
    /\ UNCHANGED <<hstate, scope, curr, ret, tres, fres, yields, starts,
                   nthreads>>

\* Mutant of Wait: a wait that gives up at once cancels the future, which
\* takes the work out of the loop.
WaitCancelsOnZero(w) ==
    /\ pc[w] = "submitted"
    /\ IF fstate[w] # "pending"
       THEN /\ ret' = [ret EXCEPT ![w] = Outcome(w)]
            /\ pc' = [pc EXCEPT ![w] = "done"]
            /\ UNCHANGED <<fstate, tstate, ready>>
       ELSE IF timeout[w] = "zero"
       THEN /\ ret' = [ret EXCEPT ![w] = Returned("None", FALSE)]
            /\ pc' = [pc EXCEPT ![w] = "done"]
            /\ fstate' = [fstate EXCEPT ![w] = "cancelled"]
            /\ tstate' = [tstate EXCEPT ![w] =
                             IF @ \in {"completed", "failed", "running"} THEN @
                             ELSE "cancelled"]
            /\ ready' = [ready EXCEPT ![target[w]] =
                            IF tstate[w] \in {"completed", "failed", "running"} THEN @
                            ELSE SelectSeq(@, LAMBDA e : e[2] # w)]
       ELSE /\ pc' = [pc EXCEPT ![w] = "waiting"]
            /\ UNCHANGED <<ret, fstate, tstate, ready>>
    /\ UNCHANGED <<hstate, scope, curr, nitems, target, caller,
                   timeout, tres, fres, yields, enq, starts,
                   nthreads, subscope>>

\* Mutant of Wait: a timeout of zero is taken for no timeout (as
\* fut.result(timeout or None) would).
WaitZeroIsNone(w) ==
    /\ pc[w] = "submitted"
    /\ IF fstate[w] # "pending"
       THEN /\ ret' = [ret EXCEPT ![w] = Outcome(w)]
            /\ pc' = [pc EXCEPT ![w] = "done"]
       ELSE /\ pc' = [pc EXCEPT ![w] = "waiting"]
            /\ UNCHANGED ret
    /\ UNCHANGED <<hstate, scope, ready, curr, nitems, target, caller,
                   timeout, tstate, tres, fstate, fres, yields, enq, starts,
                   nthreads, subscope>>

\* Line 23, entry of fut.result(timeout): a done future answers at once, a
\* zero timeout gives up at once, otherwise the thread blocks.
Wait(w) ==
    /\ pc[w] = "submitted"
    /\ IF fstate[w] # "pending"
       THEN /\ ret' = [ret EXCEPT ![w] = Outcome(w)]
            /\ pc' = [pc EXCEPT ![w] = "done"]
       ELSE IF timeout[w] = "zero"
       THEN /\ ret' = [ret EXCEPT ![w] = Returned("None", FALSE)]
            /\ pc' = [pc EXCEPT ![w] = "done"]
       ELSE /\ pc' = [pc EXCEPT ![w] = "waiting"]
            /\ UNCHANGED ret
    /\ UNCHANGED <<hstate, scope, ready, curr, nitems, target, caller,
                   timeout, tstate, tres, fstate, fres, yields, enq, starts,
                   nthreads, subscope>>

\* Line 23, the blocked thread is notified that the future is done.
Notified(w) ==
    /\ pc[w] = "waiting"
    /\ fstate[w] # "pending"
    /\ ret' = [ret EXCEPT ![w] = Outcome(w)]
    /\ pc' = [pc EXCEPT ![w] = "done"]
    /\ UNCHANGED <<hstate, scope, ready, curr, nitems, target, caller,
                   timeout, tstate, tres, fstate, fres, yields, enq, starts,
                   nthreads, subscope>>

\* Mutant of TimeoutExpire: the timeout cancels the future, which removes the
\* work from the loop.
TimeoutExpireCancels(w) ==
    /\ pc[w] = "waiting"
    /\ timeout[w] = "finite"
    /\ fstate[w] = "pending"
    /\ ret' = [ret EXCEPT ![w] = Returned("None", FALSE)]
    /\ pc' = [pc EXCEPT ![w] = "done"]
    /\ fstate' = [fstate EXCEPT ![w] = "cancelled"]
    /\ tstate' = [tstate EXCEPT ![w] =
                     IF @ \in {"completed", "failed", "running"} THEN @
                     ELSE "cancelled"]
    /\ ready' = [ready EXCEPT ![target[w]] =
                     IF tstate[w] \in {"completed", "failed", "running"} THEN @
                     ELSE SelectSeq(@, LAMBDA e : e[2] # w)]
    /\ UNCHANGED <<hstate, scope, curr, nitems, target, caller, timeout,
                   tres, fres, yields, enq, starts,
                   nthreads, subscope>>

\* Mutant of TimeoutExpire: the timeout is a timer of the loop (as with
\* asyncio.wait_for), so it fires only when the loop gets to its timers.
TimeoutExpireOnLoop(w) ==
    /\ pc[w] = "waiting"
    /\ timeout[w] = "finite"
    /\ fstate[w] = "pending"
    /\ hstate[target[w]] = "running" /\ curr[target[w]] = 0
    /\ ret' = [ret EXCEPT ![w] = Returned("None", FALSE)]
    /\ pc' = [pc EXCEPT ![w] = "done"]
    /\ UNCHANGED <<hstate, scope, ready, curr, nitems, target, caller,
                   timeout, tstate, tres, fstate, fres, yields, enq, starts,
                   nthreads, subscope>>

\* Mutant of TimeoutExpire: the caller that gives up writes the timeout into
\* the future itself (fut.set_exception).
TimeoutExpireMarksFuture(w) ==
    /\ pc[w] = "waiting"
    /\ timeout[w] = "finite"
    /\ fstate[w] = "pending"
    /\ ret' = [ret EXCEPT ![w] = Returned("None", FALSE)]
    /\ pc' = [pc EXCEPT ![w] = "done"]
    /\ fstate' = [fstate EXCEPT ![w] = "failed"]
    /\ fres' = [fres EXCEPT ![w] = "TimeoutError"]
    /\ UNCHANGED <<hstate, scope, ready, curr, nitems, target, caller,
                   timeout, tstate, tres, yields, enq, starts,
                   nthreads, subscope>>

\* Mutant of TimeoutExpire: the timeout submits the coroutine once more.
TimeoutExpireRetry(w) ==
    /\ pc[w] = "waiting"
    /\ timeout[w] = "finite"
    /\ fstate[w] = "pending"
    /\ ret' = [ret EXCEPT ![w] = Returned("None", FALSE)]
    /\ pc' = [pc EXCEPT ![w] = "done"]
    /\ ready' = [ready EXCEPT ![target[w]] = Append(@, <<"submit", w>>)]
    /\ enq' = [enq EXCEPT ![w] = @ + 1]
    /\ UNCHANGED <<hstate, scope, curr, nitems, target, caller, timeout,
                   tstate, tres, fstate, fres, yields, starts,
                   nthreads, subscope>>

\* Lines 24-25: the wait ran out with the future still pending; the future
\* and the task are left as they are.
TimeoutExpire(w) ==
    /\ pc[w] = "waiting"
    /\ timeout[w] = "finite"
    /\ fstate[w] = "pending"
    /\ ret' = [ret EXCEPT ![w] = Returned("None", FALSE)]
    /\ pc' = [pc EXCEPT ![w] = "done"]
    /\ UNCHANGED <<hstate, scope, ready, curr, nitems, target, caller,
                   timeout, tstate, tres, fstate, fres, yields, enq, starts,
                   nthreads, subscope>>

\* ---- loop.run_forever(): the loop thread runs one handle at a time ----

HeadIs(h, kind) == ready[h] # <<>> /\ Head(ready[h])[1] = kind
HeadItem(h) == Head(ready[h])[2]

\* Mutant of RunCallback: the callback is run although the loop thread is in
\* the middle of a step (as a wait that pumped the loop would do).
RunCallbackReentrant(h) ==
    /\ hstate[h] = "running"
    /\ HeadIs(h, "submit")
    /\ tstate' = [tstate EXCEPT ![HeadItem(h)] = "ready"]
    /\ ready' = [ready EXCEPT ![h] = Append(Tail(@), <<"step", HeadItem(h)>>)]
    /\ UNCHANGED <<hstate, scope, curr, nitems, target, caller, timeout, pc,
                   ret, tres, fstate, fres, yields, enq, starts,
                   nthreads, subscope>>

\* The callback of run_coroutine_threadsafe: ensure_future(coro) creates the
\* task, whose first step is queued with call_soon.
RunCallback(h) ==
    /\ LoopIdle(h)
    /\ HeadIs(h, "submit")
    /\ tstate' = [tstate EXCEPT ![HeadItem(h)] = "ready"]
    /\ ready' = [ready EXCEPT ![h] = Append(Tail(@), <<"step", HeadItem(h)>>)]
    /\ UNCHANGED <<hstate, scope, curr, nitems, target, caller, timeout, pc,
                   ret, tres, fstate, fres, yields, enq, starts,
                   nthreads, subscope>>

\* Mutant of StepBegin: a step is started while another coroutine of the loop
\* is still in its step (as an executor with several workers would).
StepBeginParallel(h) ==
    /\ hstate[h] = "running"
    /\ HeadIs(h, "step")
    /\ curr' = [curr EXCEPT ![h] = HeadItem(h)]
    /\ tstate' = [tstate EXCEPT ![HeadItem(h)] = "running"]
    /\ starts' = [starts EXCEPT ![HeadItem(h)] =
                     IF yields[HeadItem(h)] = 0 THEN @ + 1 ELSE @]
    /\ ready' = [ready EXCEPT ![h] = Tail(@)]
    /\ UNCHANGED <<hstate, scope, nitems, target, caller, timeout, pc, ret,
                   tres, fstate, fres, yields, enq,
                   nthreads, subscope>>

\* Task.__step begins: the coroutine runs on the loop thread.
StepBegin(h) ==
    /\ LoopIdle(h)
    /\ HeadIs(h, "step")
    /\ curr' = [curr EXCEPT ![h] = HeadItem(h)]
    /\ tstate' = [tstate EXCEPT ![HeadItem(h)] = "running"]
    /\ starts' = [starts EXCEPT ![HeadItem(h)] =
                     IF yields[HeadItem(h)] = 0 THEN @ + 1 ELSE @]
    /\ ready' = [ready EXCEPT ![h] = Tail(@)]
    /\ UNCHANGED <<hstate, scope, nitems, target, caller, timeout, pc, ret,
                   tres, fstate, fres, yields, enq,
                   nthreads, subscope>>

\* The running coroutine, not blocked inside a nested run_async.
Stepping(h) == curr[h] # 0 /\ ~ThreadBusy(LoopThread(h))

\* The coroutine awaits (asyncio.sleep, ...): control returns to the loop.
StepYield(h) ==
    /\ Stepping(h)
    /\ yields[curr[h]] < MaxYields
    /\ yields' = [yields EXCEPT ![curr[h]] = @ + 1]
    /\ tstate' = [tstate EXCEPT ![curr[h]] = "suspended"]
    /\ curr' = [curr EXCEPT ![h] = 0]
    /\ UNCHANGED <<hstate, scope, ready, nitems, target, caller, timeout, pc,
                   ret, tres, fstate, fres, enq, starts,
                   nthreads, subscope>>

\* The coroutine returns v: the task is done and its done-callback (the
\* chaining to the concurrent future) is queued with call_soon.
StepReturn(h, v) ==
    /\ Stepping(h)
    /\ tstate' = [tstate EXCEPT ![curr[h]] = "completed"]
    /\ tres' = [tres EXCEPT ![curr[h]] = v]
    /\ ready' = [ready EXCEPT ![h] = Append(@, <<"resolve", curr[h]>>)]
    /\ curr' = [curr EXCEPT ![h] = 0]
    /\ UNCHANGED <<hstate, scope, nitems, target, caller, timeout, pc, ret,
                   fstate, fres, yields, enq, starts,
                   nthreads, subscope>>

\* The coroutine raises e.
StepRaise(h, e) ==
    /\ Stepping(h)
    /\ tstate' = [tstate EXCEPT ![curr[h]] = "failed"]
    /\ tres' = [tres EXCEPT ![curr[h]] = e]
    /\ ready' = [ready EXCEPT ![h] = Append(@, <<"resolve", curr[h]>>)]
    /\ curr' = [curr EXCEPT ![h] = 0]
    /\ UNCHANGED <<hstate, scope, nitems, target, caller, timeout, pc, ret,
                   fstate, fres, yields, enq, starts,
                   nthreads, subscope>>

\* What a suspended coroutine awaited is ready (its timer fired): the loop
\* queues the task's next step.
Wakeup(w) ==
    /\ tstate[w] = "suspended"
    /\ LoopIdle(target[w])
    /\ tstate' = [tstate EXCEPT ![w] = "ready"]
    /\ ready' = [ready EXCEPT ![target[w]] = Append(@, <<"step", w>>)]
    /\ UNCHANGED <<hstate, scope, curr, nitems, target, caller, timeout, pc,
                   ret, tres, fstate, fres, yields, enq, starts,
                   nthreads, subscope>>

\* Mutant of SetFutureState: the done-callback reads the outcome of the first
\* task instead of its own.
SetFutureStateOfFirst(h) ==
    /\ LoopIdle(h)
    /\ HeadIs(h, "resolve")
    /\ fstate' = [fstate EXCEPT ![HeadItem(h)] = tstate[HeadItem(h)]]
    /\ fres' = [fres EXCEPT ![HeadItem(h)] = tres[1]]
    /\ ready' = [ready EXCEPT ![h] = Tail(@)]
    /\ UNCHANGED <<hstate, scope, curr, nitems, target, caller, timeout, pc,
                   ret, tstate, tres, yields, enq, starts,
                   nthreads, subscope>>

\* Mutant of SetFutureState: a failure that no caller waits for is not
\* retrieved; it escapes the callback and ends run_forever.
SetFutureStateCrashes(h) ==
    /\ LoopIdle(h)
    /\ HeadIs(h, "resolve")
    /\ fstate' = [fstate EXCEPT ![HeadItem(h)] = tstate[HeadItem(h)]]
    /\ fres' = [fres EXCEPT ![HeadItem(h)] = tres[HeadItem(h)]]
    /\ ready' = [ready EXCEPT ![h] = Tail(@)]
    /\ hstate' = [hstate EXCEPT ![h] =
                     IF tstate[HeadItem(h)] = "failed" /\ pc[HeadItem(h)] = "done"
                     THEN "stopped" ELSE @]
    /\ UNCHANGED <<scope, curr, nitems, target, caller, timeout, pc,
                   ret, tstate, tres, yields, enq, starts,
                   nthreads, subscope>>

\* The task's done-callback copies the task's outcome into the concurrent
\* future and wakes the waiters.
SetFutureState(h) ==
    /\ LoopIdle(h)
    /\ HeadIs(h, "resolve")
    /\ fstate' = [fstate EXCEPT ![HeadItem(h)] = tstate[HeadItem(h)]]
    /\ fres' = [fres EXCEPT ![HeadItem(h)] = tres[HeadItem(h)]]
    /\ ready' = [ready EXCEPT ![h] = Tail(@)]
    /\ UNCHANGED <<hstate, scope, curr, nitems, target, caller, timeout, pc,
                   ret, tstate, tres, yields, enq, starts,
                   nthreads, subscope>>

\* ---- specifications ----

LoopNext(h) ==
    \/ RunForever(h)
    \/ RunCallback(h)
    \/ StepBegin(h)
    \/ StepYield(h)
    \/ \E v \in Values : StepReturn(h, v)
    \/ \E e \in Excs : StepRaise(h, e)
    \/ SetFutureState(h)

CallerNext(w) ==
    \/ Wait(w)
    \/ Notified(w)
    \/ TimeoutExpire(w)

\* One step of the program with the loops of H acquired and used, and with
\* T the timeouts a coroutine passes when it calls run_async on its own loop.
NextOn(H, T) ==
    \/ \E h \in H : Acquire(h)
    \/ \E h \in H : ExitScope(h)
    \/ \E t \in ExtThreads, h \in H, tmo \in Timeouts : RunAsync(t, h, tmo)
    \/ \E h \in H, tmo \in T : RunAsyncNested(h, tmo)
    \/ \E h \in H : LoopNext(h)
    \/ \E w \in Items : Wakeup(w)
    \/ \E w \in Items : CallerNext(w)

Next == NextOn(Handles, Timeouts)

Spec == Init /\ [][Next]_vars

\* The liveness specifications follow one loop.
FairHandles == {1}

LoopThreadNext(h) == LoopNext(h) \/ \E w \in Items : target[w] = h /\ Wakeup(w)

\* Loops are fairly scheduled, coroutines terminate (every step ends and a
\* coroutine suspends at most MaxYields times) and no coroutine blocks its own
\* loop for ever with a nested call that has no timeout.
TermNext == NextOn(FairHandles, Timeouts \ {NoTimeout})

FairSpec ==
    /\ Init /\ [][TermNext]_vars
    /\ \A h \in Handles : WF_vars(LoopThreadNext(h))
    /\ \A w \in Items : WF_vars(CallerNext(w))

\* Only the calling threads are fairly scheduled: a loop may never start, and
\* a coroutine may never yield or never end.
OneLoopNext == NextOn(FairHandles, Timeouts)

CallerFairSpec ==
    /\ Init /\ [][OneLoopNext]_vars
    /\ \A w \in Items : WF_vars(CallerNext(w))

\* ---- properties ----

Resolved(w) == fstate[w] \in {"completed", "failed"}
Finished(w) == tstate[w] \in {"completed", "failed"}
IsExt(w) == caller[w][1] = "ext"
\* The run_async call on w returns or raises in this step.
Leaves(w) == InCall(w) /\ pc'[w] = "done"
\* The call on w has returned (None, False) and the future has no outcome
\* yet: the wait timed out.
TimedOut(w) == pc[w] = "done" /\ ret[w] = Returned("None", FALSE) /\ ~Resolved(w)

\* C1: a run_async call that ends when its WorkItem has failed, whatever the
\* failure, raises that failure; it returns (None, False) only when the
\* future is still pending, that is, when the wait timed out.
C1_FailurePropagates ==
    [][\A w \in Items : Leaves(w) =>
          /\ (fstate[w] = "failed" => ret'[w] = Raised(tres[w]))
          /\ (ret'[w] = Returned("None", FALSE) => fstate[w] = "pending")]_vars

\* C2: a run_async call that ends when its WorkItem has completed returns
\* (value, True) with the value that WorkItem's coroutine returned, and a
\* call that returns the flag True returns the value of its own WorkItem.
C2_ValueReturned ==
    [][\A w \in Items : Leaves(w) =>
          /\ (fstate[w] = "completed" => ret'[w] = Returned(tres[w], TRUE))
          /\ (ret'[w].flag => tstate[w] = "completed" /\ ret'[w].val = tres[w])]_vars

\* A call returned ("42", True) although another WorkItem of the same loop
\* had completed with None before it.
C2_Witness ==
    \E w, u \in Items :
        /\ u < w /\ target[u] = target[w]
        /\ pc[w] = "done" /\ ret[w] = Returned("42", TRUE)
        /\ tstate[u] = "completed" /\ tres[u] = "None"

\* C3: once a call has timed out, its WorkItem still runs to the end: the task
\* and the future reach completed or failed (loops fairly scheduled,
\* coroutines terminating).
C3_TimedOutStillRuns ==
    \A w \in Items : TimedOut(w) ~> (Finished(w) /\ Resolved(w))

\* A call timed out before its coroutine ended, and the coroutine completed
\* afterwards.
C3_Witness ==
    \E w \in Items :
        /\ pc[w] = "done" /\ ret[w] = Returned("None", FALSE)
        /\ timeout[w] = "finite" /\ yields[w] > 0
        /\ fstate[w] = "completed" /\ fres[w] = "42"

\* C4: a call with timeout=None that returns, returns the flag True.
C4_NoTimeoutNeverFalse ==
    \A w \in Items :
        (pc[w] = "done" /\ timeout[w] = NoTimeout /\ ret[w].kind = "return")
            => ret[w].flag

\* C5: the thread of a loop is never blocked without timeout on the future of
\* a WorkItem that only this loop can run.
C5_NoSelfDeadlock ==
    \A w \in Items :
        ~(/\ pc[w] = "waiting" /\ timeout[w] = NoTimeout
          /\ caller[w] = LoopThread(target[w]) /\ fstate[w] = "pending")

\* C6: every future leaves the pending state, also when several threads are
\* inside run_async on the same loop at once (loops fairly scheduled,
\* coroutines terminating).
C6_AllResolve ==
    \A w \in Items : (fstate[w] = "pending") ~> Resolved(w)

\* Two threads are blocked in run_async on the same loop and both futures
\* have been resolved.
C6_Witness ==
    \E w, u \in Items :
        /\ w # u /\ target[w] = target[u]
        /\ IsExt(w) /\ IsExt(u) /\ caller[w] # caller[u]
        /\ pc[w] = "waiting" /\ pc[u] = "waiting"
        /\ Resolved(w) /\ Resolved(u)

\* C7: on each loop at most one WorkItem is in a step, and it is the one the
\* loop thread is running.
C7_OneStepAtATime ==
    \A h \in Handles :
        /\ Cardinality({w \in Items : target[w] = h /\ tstate[w] = "running"}) <= 1
        /\ \A w \in Items : (target[w] = h /\ tstate[w] = "running") => curr[h] = w

\* A WorkItem is in a step while a WorkItem of another thread, suspended
\* earlier on the same loop, is queued for its next step.
C7_Witness ==
    \E w, u \in Items :
        /\ w # u /\ target[w] = target[u]
        /\ IsExt(w) /\ IsExt(u) /\ caller[w] # caller[u]
        /\ tstate[w] = "running" /\ tstate[u] = "ready" /\ yields[u] > 0

\* C8: a run_async call with a finite (or zero) timeout ends, whatever the
\* loop does (calling threads fairly scheduled, nothing assumed of the loop).
C8_FiniteTimeoutReturns ==
    \A w \in Items : (InCall(w) /\ timeout[w] # NoTimeout) ~> pc[w] = "done"

\* A call timed out while its WorkItem was still waiting behind another
\* WorkItem that is in a step on the same loop.
C8_Witness ==
    \E w, u \in Items :
        /\ u < w /\ pc[u] # "idle" /\ target[w] = target[u]
        /\ curr[target[u]] = u
        /\ tstate[w] \in {"queued", "ready"}
        /\ TimedOut(w) /\ timeout[w] = "finite"

\* C9: a WorkItem is queued and run only on the loop it was submitted to.
C9_Independent ==
    \A h \in Handles :
        /\ curr[h] # 0 => target[curr[h]] = h
        /\ \A i \in 1..Len(ready[h]) : target[ready[h][i][2]] = h

\* A WorkItem submitted to the second loop later than a WorkItem that is
\* still in its step on the first loop has completed and been returned.
C9_Witness ==
    \E w, u \in Items :
        /\ u < w /\ target[u] = 1 /\ target[w] = 2
        /\ curr[1] = u /\ tstate[u] = "running"
        /\ pc[w] = "done" /\ ret[w] = Returned("42", TRUE)

\* C10: a run_async call enqueues its WorkItem once, the WorkItem is started
\* at most once and is in the ready queue at most once, however the call ends.
C10_EnqueuedOnce ==
    \A w \in Items :
        /\ enq[w] = (IF pc[w] = "idle" THEN 0 ELSE 1)
        /\ starts[w] <= 1
        /\ \A h \in Handles :
              Cardinality({i \in 1..Len(ready[h]) : ready[h][i][2] = w}) <= 1

\* A call has timed out, another has raised, and both WorkItems were started
\* once.
C10_Witness ==
    \E w, u \in Items :
        /\ pc[w] = "done" /\ ret[w] = Returned("None", FALSE) /\ timeout[w] = "finite"
        /\ pc[u] = "done" /\ ret[u].kind = "raise"
        /\ starts[w] = 1 /\ starts[u] = 1 /\ Finished(w)

\* C11: the future of a WorkItem is written once: created pending by the
\* submission, it goes from pending to completed or failed in a step of its
\* loop's thread that copies the outcome of the finished task, and no other
\* step (a caller's return or timeout, a later step of the loop) changes its
\* state or value.
C11_WriteOnce ==
    [][\A w \in Items :
          (fstate'[w] # fstate[w] \/ fres'[w] # fres[w]) =>
             \/ /\ fstate[w] = "none" /\ fstate'[w] = "pending"
                /\ fres'[w] = fres[w]
             \/ /\ fstate[w] = "pending" /\ Finished(w)
                /\ fstate'[w] = tstate[w] /\ fres'[w] = tres[w]
                /\ LoopIdle(target[w]) /\ pc' = pc]_vars

\* A call timed out, its future was completed afterwards, and the loop has
\* since resolved a later WorkItem as failed.
C11_Witness ==
    \E w, u \in Items :
        /\ w < u /\ target[w] = target[u]
        /\ pc[w] = "done" /\ ret[w] = Returned("None", FALSE)
        /\ fstate[w] = "completed" /\ fres[w] = "42"
        /\ fstate[u] = "failed"

\* The call on w timed out and the task of w has failed, or the failure has
\* already been stored in a future that nobody reads.
Orphaned(w) ==
    \/ TimedOut(w) /\ tstate[w] = "failed"
    \/ /\ pc[w] = "done" /\ ret[w] = Returned("None", FALSE)
       /\ fstate[w] = "failed" /\ ~Catches(fres[w])

\* C12: a failure of a WorkItem whose caller has timed out touches nothing
\* else: the loop goes on running, a call that raises raises the failure of
\* its own WorkItem, and every other WorkItem of the loop, pending then or
\* submitted later, is still resolved (loops fairly scheduled, coroutines
\* terminating).
C12_OrphanFailureDiscarded ==
    /\ [](\A w \in Items : Orphaned(w) => hstate[target[w]] = "running")
    /\ [](\A u \in Items : ret[u].kind = "raise" =>
             tstate[u] = "failed" /\ ret[u].val = tres[u])
    /\ \A w, u \in Items :
          (w # u /\ Orphaned(w) /\ fstate[u] = "pending") ~> Resolved(u)

\* The first call timed out and its WorkItem failed with ValueError
\* afterwards; a WorkItem submitted later to the same loop has completed and
\* its call has returned ("42", True).
C12_Witness ==
    \E w, u \in Items :
        /\ w < u /\ target[w] = target[u]
        /\ Orphaned(w) /\ fstate[w] = "failed" /\ fres[w] = "ValueError"
        /\ pc[u] = "done" /\ ret[u] = Returned("42", TRUE)

\* C13: leaving the with-block changes nothing but the scope itself, a loop
\* thread that is in run_forever stays in it, and every WorkItem that is
\* pending on a loop whose scope is closed, among them those submitted after
\* the exit, is started and resolved (loops fairly scheduled, coroutines
\* terminating).
C13_UsableAfterScope ==
    /\ [][\A h \in Handles :
             /\ scope'[h] # scope[h] /\ scope'[h] = "closed" =>
                   UNCHANGED <<hstate, ready, curr, nthreads, nitems, pc,
                               tstate, tres, fstate, fres>>
             /\ hstate[h] = "running" => hstate'[h] = "running"]_vars
    /\ \A w \in Items :
          (fstate[w] = "pending" /\ scope[target[w]] = "closed")
              ~> (Resolved(w) /\ starts[w] = 1)

\* A WorkItem submitted after the with-block was left has completed, and its
\* call has returned ("42", True).
C13_Witness ==
    \E w \in Items :
        /\ subscope[w] = "closed"
        /\ pc[w] = "done" /\ ret[w] = Returned("42", TRUE)

\* C14: a handle that has not been acquired has no thread, and an acquired
\* handle has had exactly one thread started for its one loop, whatever
\* run_async calls and loop steps have followed.
C14_OneThreadPerHandle ==
    \A h \in Handles :
        /\ nthreads[h] = (IF hstate[h] = "none" THEN 0 ELSE 1)
        /\ hstate[h] \in {"none", "started", "running"}

\* Both handles are acquired and a run_async call has ended on each, one of
\* them submitted before its loop's thread had entered run_forever.
C14_Witness ==
    \E w, u \in Items :
        /\ target[w] = 1 /\ target[u] = 2
        /\ pc[w] = "done" /\ pc[u] = "done"
        /\ hstate[2] = "started" /\ nthreads[1] = 1 /\ nthreads[2] = 1

\* C15: a run_async call that ends while its future is pending (the timeout
\* return) returns (None, False) and changes nothing else: the future stays
\* pending, the task stays queued, running or suspended as it was, the ready
\* queues and the loops are untouched, and so are the other calls.
C15_TimeoutFrame ==
    [][\A w \in Items : (Leaves(w) /\ fstate[w] = "pending") =>
          /\ ret'[w] = Returned("None", FALSE)
          /\ fstate'[w] = "pending"
          /\ UNCHANGED <<hstate, scope, ready, curr, nitems, target, caller,
                         timeout, tstate, tres, fstate, fres, yields, enq,
                         starts, nthreads>>
          /\ \A u \in Items \ {w} : pc'[u] = pc[u] /\ ret'[u] = ret[u]]_vars

\* One call has timed out with its task suspended, another with its task in
\* a step; both futures are still pending.
C15_Witness ==
    \E w, u \in Items :
        /\ TimedOut(w) /\ fstate[w] = "pending" /\ tstate[w] = "suspended"
        /\ TimedOut(u) /\ fstate[u] = "pending" /\ tstate[u] = "running"

\* C16: a call with timeout zero never blocks: when it begins to wait with
\* its future pending it returns (None, False) in that step, with the task
\* and the ready queue left as they are; the WorkItem is nevertheless started
\* and run to its end later (loops fairly scheduled, coroutines terminating).
C16_ZeroTimeout ==
    /\ [](\A w \in Items : timeout[w] = "zero" => pc[w] # "waiting")
    /\ [][\A w \in Items :
             (/\ pc[w] = "submitted" /\ timeout[w] = "zero"
              /\ fstate[w] = "pending" /\ pc'[w] # pc[w]) =>
                 /\ pc'[w] = "done" /\ ret'[w] = Returned("None", FALSE)
                 /\ UNCHANGED <<ready, curr, tstate, fstate>>]_vars
    /\ \A w \in Items :
          (timeout[w] = "zero" /\ TimedOut(w)) ~> (starts[w] = 1 /\ Finished(w))

\* A call with timeout zero returned (None, False) and its WorkItem has
\* completed since.
C16_Witness ==
    \E w \in Items :
        /\ timeout[w] = "zero"
        /\ pc[w] = "done" /\ ret[w] = Returned("None", FALSE)
        /\ starts[w] = 1 /\ fstate[w] = "completed"

\* C17: while the thread of a loop has not yet entered run_forever, every
\* WorkItem submitted to the loop is accepted and stays in the loop's ready
\* queue with its future pending; it is started and resolved once the thread
\* runs the loop (loops fairly scheduled, coroutines terminating).
C17_EarlySubmitKept ==
    /\ [](\A w \in Items :
             (pc[w] # "idle" /\ hstate[target[w]] = "started") =>
                 /\ tstate[w] = "queued" /\ fstate[w] = "pending"
                 /\ \E i \in 1..Len(ready[target[w]]) :
                        ready[target[w]][i] = <<"submit", w>>)
    /\ \A w \in Items :
          (fstate[w] = "pending" /\ hstate[target[w]] = "started")
              ~> (Resolved(w) /\ starts[w] = 1)

\* The thread has not entered run_forever yet, the with-block has already
\* been left, and a caller without timeout is blocked on a WorkItem whose
\* callback is in the loop's ready queue.
C17_Witness ==
    \E w \in Items :
        /\ timeout[w] = NoTimeout /\ pc[w] = "waiting"
        /\ hstate[target[w]] = "started" /\ subscope[w] = "closed"
        /\ ready[target[w]] = <<<<"submit", w>>>>

\* C18: when a run_async call returns, the flag is True exactly if the future
\* was completed at that moment, and the value returned with a False flag is
\* None; so a WorkItem that returns None in time gives (None, True), which
\* the flag tells apart from the (None, False) of a timeout.
C18_ReturnShape ==
    [][\A w \in Items : (Leaves(w) /\ ret'[w].kind = "return") =>
          /\ ret'[w].flag <=> fstate[w] = "completed"
          /\ ~ret'[w].flag => ret'[w].val = "None"
          /\ (fstate[w] = "completed" /\ fres[w] = "None") =>
                ret'[w] = Returned("None", TRUE)]_vars

\* One call returned (None, True) for a WorkItem that returned None, another
\* returned (None, False) by timeout.
C18_Witness ==
    \E w, u \in Items :
        /\ pc[w] = "done" /\ ret[w] = Returned("None", TRUE) /\ tres[w] = "None"
        /\ TimedOut(u)

\* The run_async call on w was made on the thread of the loop it targets.
OnOwnLoop(w) == pc[w] # "idle" /\ caller[w] = LoopThread(target[w])

\* C19: while a run_async call made on the loop's own thread is in progress,
\* the calling coroutine is still in its step and the submitted WorkItem has
\* made no progress (callback queued, not started, future pending); such a
\* call with a finite or zero timeout ends by returning (None, False); and
\* the WorkItem leaves the queue only when the call has ended and no step is
\* in progress on the loop.
C19_OwnThreadCall ==
    /\ [](\A w \in Items : (OnOwnLoop(w) /\ InCall(w)) =>
             /\ curr[target[w]] # 0
             /\ tstate[w] = "queued" /\ starts[w] = 0 /\ fstate[w] = "pending")
    /\ [](\A w \in Items :
             (OnOwnLoop(w) /\ pc[w] = "done" /\ timeout[w] # NoTimeout) =>
                 ret[w] = Returned("None", FALSE))
    /\ [][\A w \in Items :
             (OnOwnLoop(w) /\ tstate[w] = "queued" /\ tstate'[w] # "queued") =>
                 pc[w] = "done" /\ curr[target[w]] = 0]_vars

\* A call made with a finite timeout on the loop's own thread returned
\* (None, False), and the WorkItem has been run to completion since.
C19_Witness ==
    \E w \in Items :
        /\ OnOwnLoop(w) /\ timeout[w] = "finite"
        /\ pc[w] = "done" /\ ret[w] = Returned("None", FALSE)
        /\ starts[w] = 1 /\ fstate[w] = "completed"

\* C20: of two WorkItems that one thread submitted to one loop in successive
\* run_async calls, the later one is not started before the earlier one,
\* also when the earlier call timed out before its WorkItem was started.
C20_StartedInOrder ==
    \A u, w \in Items :
        (/\ u < w /\ pc[w] # "idle"
         /\ target[u] = target[w] /\ caller[u] = caller[w]
         /\ starts[w] >= 1) => starts[u] >= 1

\* A thread's first call has timed out with its WorkItem not yet started, and
\* the same thread has submitted a second WorkItem to the same loop.
C20_Witness ==
    \E u, w \in Items :
        /\ u < w /\ pc[w] # "idle"
        /\ target[u] = target[w] /\ caller[u] = caller[w]
        /\ TimedOut(u) /\ starts[u] = 0 /\ starts[w] = 0

====
